---- MODULE Spec2Model ----
(***************************************************************************)
(* A model of gematria-rs: the letter tables, the calculation strategies   *)
(* (src/src/methods.rs) and the GematriaBuilder / GematriaContext engine   *)
(* with its optional cache (src/src/lib.rs).                               *)
(*                                                                         *)
(* A char is its Unicode code point, a string is a sequence of chars, an   *)
(* Option is a sequence of length at most one (<< >> is None).             *)
(***************************************************************************)
EXTENDS Integers, Sequences, FiniteSets, TLC

VARIABLES
    builder,               \* GematriaBuilder {method, enable_cache, presevre_vowels}
    status,                \* "building", "ready" (a context exists) or "panicked"
    character_map,         \* GematriaContext.character_map.char_to_index
    calculation_strategy,  \* GematriaContext.calculation_strategy
    cache,                 \* GematriaContext.cache: Option<RefCell<HashMap<..>>>
    preserve_vowels,       \* GematriaContext.preserve_vowels
    last,                  \* the last call on the context and what it returned
    prev,                  \* the calculate_value call right before `last`, if any
    inserted,              \* history: every entry ever inserted into the cache
    first_value,           \* history: first calculate_value result per (method, text)
    steps                  \* number of calls made on the context

vars == <<builder, status, character_map, calculation_strategy, cache,
          preserve_vowels, last, prev, inserted, first_value, steps>>

----------------------------------------------------------------------------
(* Bounds of the model. *)

MaxSteps == 3

MaxSwitchSteps == 4

MaxLetterSteps == 2

MaxTextLen == 2

MaxTextSteps == 1
MaxSearchSteps == 2

----------------------------------------------------------------------------
(* Characters (Unicode code points). *)

alef == 1488
bet == 1489
gimel == 1490
dalet == 1491
he == 1492
vav == 1493
zayin == 1494
het == 1495
tet == 1496
yod == 1497
kaf_final == 1498
kaf == 1499
lamed == 1500
mem_final == 1501
mem == 1502
nun_final == 1503
nun == 1504
samekh == 1505
ayin == 1506
pe_final == 1507
pe == 1508
tsadi_final == 1509
tsadi == 1510
qof == 1511
resh == 1512
shin == 1513
tav == 1514

VowelFirst == 1425
VowelLast == 1479
maqaf == 1470
tsere == 1461
qamats == 1464
space == 32

----------------------------------------------------------------------------
(* Generic helpers. *)

Range(s) == {s[i] : i \in DOMAIN s}

Reverse(s) == [i \in 1..Len(s) |-> s[Len(s) + 1 - i]]

RECURSIVE SumSeq(_)
SumSeq(s) == IF s = << >> THEN 0 ELSE s[1] + SumSeq(Tail(s))

RECURSIVE Pow10(_)
Pow10(n) == IF n = 0 THEN 1 ELSE 10 * Pow10(n - 1)

(* The position of the last occurrence of c in s: HashMap::insert overwrites. *)
LastPos(s, c) == CHOOSE i \in DOMAIN s : s[i] = c /\ \A j \in DOMAIN s : s[j] = c => j <= i

(* HashMap::get as an Option. *)
Get(map, k) == IF k \in DOMAIN map THEN <<map[k]>> ELSE << >>

----------------------------------------------------------------------------
(* The gematria methods (methods.rs, enum GematriaMethod). *)

GematriaMethod ==
    {"MisparHechrechi", "MisparGadol", "MisparKatan", "MisparSiduri",
     "MisparBoneh", "MisparMeugal", "MisparMusafi", "OtiyotBeMilui"}

(* The methods process_method_dyn has an arm for. *)
Implemented == {"MisparHechrechi", "MisparGadol", "MisparKatan", "OtiyotBeMilui"}

----------------------------------------------------------------------------
(* The tables (lib.rs). *)

(* A variant of the letter list: the letters in code point order, each final   *)
(* form right before its base letter.                                          *)
letters_in_code_point_order ==
    <<alef, bet, gimel, dalet, he, vav, zayin, het, tet, yod, kaf_final, kaf, lamed,
      mem_final, mem, nun_final, nun, samekh, ayin, pe_final, pe, tsadi_final,
      tsadi, qof, resh, shin, tav>>

letters ==
    <<alef, bet, gimel, dalet, he, vav, zayin, het, tet, yod, kaf, lamed, mem,
      nun, samekh, ayin, pe, tsadi, qof, resh, shin, tav,
      kaf_final, mem_final, nun_final, pe_final, tsadi_final>>

(* A variant of the index map: each final form at the position of its base     *)
(* letter (11, 13, 14, 17, 18).                                                *)
create_hebrew_index_map_aliased ==
    [c \in Range(letters) |->
        CASE c = kaf_final -> 11
          [] c = mem_final -> 13
          [] c = nun_final -> 14
          [] c = pe_final -> 17
          [] c = tsadi_final -> 18
          [] OTHER -> LastPos(letters, c)]

create_hebrew_index_map == [c \in Range(letters) |-> LastPos(letters, c)]

full_names ==
    <<  <<alef, <<alef, lamed, pe_final>> >>,
        <<bet, <<bet, yod, tav>> >>,
        <<gimel, <<gimel, yod, mem, lamed>> >>,
        <<dalet, <<dalet, lamed, tav>> >>,
        <<he, <<he, alef>> >>,
        <<vav, <<vav, yod, vav>> >>,
        <<zayin, <<zayin, yod, nun_final>> >>,
        <<het, <<het, yod, tav>> >>,
        <<tet, <<tet, yod, tav>> >>,
        <<yod, <<yod, vav, dalet>> >>,
        <<kaf, <<kaf, pe_final>> >>,
        <<lamed, <<lamed, mem, dalet>> >>,
        <<mem, <<mem, mem_final>> >>,
        <<nun, <<nun, vav, nun_final>> >>,
        <<samekh, <<samekh, mem, kaf_final>> >>,
        <<ayin, <<ayin, yod, nun_final>> >>,
        <<pe, <<pe, alef>> >>,
        <<tsadi, <<tsadi, dalet, yod>> >>,
        <<qof, <<qof, vav, pe_final>> >>,
        <<resh, <<resh, yod, shin>> >>,
        <<shin, <<shin, yod, nun_final>> >>,
        <<tav, <<tav, yod, vav>> >>  >>

create_hebrew_filled_letters_map ==
    [c \in {full_names[i][1] : i \in DOMAIN full_names} |->
        full_names[CHOOSE i \in DOMAIN full_names :
                       /\ full_names[i][1] = c
                       /\ \A j \in DOMAIN full_names : full_names[j][1] = c => j <= i][2]]

(* HashMap iteration order is unspecified.  An order is a sequence of the map's *)
(* keys; the insertion order and its reverse are the two the model draws from:  *)
(* whenever two keys compete in a scan, one order meets the one first and the   *)
(* other order the other.                                                       *)
IterOrders == {letters, Reverse(letters)}

----------------------------------------------------------------------------
(* The calculation strategies (methods.rs). *)

std_gematria_value(letter_index) ==
    Pow10((letter_index - 1) \div 9) * (((letter_index - 1) % 9) + 1)

(* A variant without the arms for the final forms. *)
MisparHechrechi_no_final_arms(letter_index) == std_gematria_value(letter_index)

MisparHechrechi_calculate_value(letter_index) ==
    CASE letter_index = 23 -> 20
      [] letter_index = 24 -> 40
      [] letter_index = 25 -> 50
      [] letter_index = 26 -> 80
      [] letter_index = 27 -> 90
      [] OTHER -> std_gematria_value(letter_index)

(* A variant with the final forms valued as in MisparHechrechi. *)
MisparGadol_finals_as_base(letter_index) ==
    CASE letter_index = 23 -> 20
      [] letter_index = 24 -> 40
      [] letter_index = 25 -> 50
      [] letter_index = 26 -> 80
      [] letter_index = 27 -> 90
      [] OTHER -> std_gematria_value(letter_index)

MisparGadol_calculate_value(letter_index) ==
    CASE letter_index = 23 -> 500
      [] letter_index = 24 -> 600
      [] letter_index = 25 -> 700
      [] letter_index = 26 -> 800
      [] letter_index = 27 -> 900
      [] OTHER -> std_gematria_value(letter_index)

(* value.to_string().chars().map(to_digit).sum() *)
RECURSIVE digit_sum(_)
digit_sum(value) == IF value < 10 THEN value ELSE (value % 10) + digit_sum(value \div 10)

(* A variant that reduces by arithmetic modulo 9. *)
reduce_modulo_nine(value) == IF value >= 10 THEN value % 9 ELSE value

RECURSIVE reduce_to_single_digit(_)
reduce_to_single_digit(value) ==
    IF value >= 10 THEN reduce_to_single_digit(digit_sum(value)) ELSE value

MisparKatan_calculate_value(letter_index) ==
    LET value == CASE letter_index = 23 -> 500
                   [] letter_index = 24 -> 600
                   [] letter_index = 25 -> 700
                   [] letter_index = 26 -> 800
                   [] letter_index = 27 -> 900
                   [] OTHER -> std_gematria_value(letter_index)
    IN  reduce_to_single_digit(value)

(* iter().find_map: the first key in iteration order that has this index. *)
index_to_char(char_to_index, order, index) ==
    LET hits == {i \in DOMAIN order : char_to_index[order[i]] = index}
    IN  IF hits = {} THEN << >>
        ELSE <<order[CHOOSE i \in hits : \A j \in hits : i <= j]>>

(* A variant without the arms for the final forms in a spelling. *)
explode_full_letters_no_final_arms(filled_letters, char_to_index, charcter) ==
    IF charcter \in DOMAIN filled_letters
    THEN LET filled_form == filled_letters[charcter]
         IN  SumSeq([i \in DOMAIN filled_form |->
                        std_gematria_value(char_to_index[filled_form[i]])])
    ELSE 0

explode_full_letters(filled_letters, char_to_index, charcter) ==
    IF charcter \in DOMAIN filled_letters
    THEN LET filled_form == filled_letters[charcter]
             val(c) == LET index == char_to_index[c]   \* get(&c).unwrap()
                       IN  CASE index = 23 -> 20
                             [] index = 24 -> 40
                             [] index = 25 -> 50
                             [] index = 26 -> 80
                             [] index = 27 -> 90
                             [] OTHER -> std_gematria_value(index)
         IN  SumSeq([i \in DOMAIN filled_form |-> val(filled_form[i])])
    ELSE 0

(* A variant that spells a final form as its base letter. *)
OtyiotBeMilui_finals_as_base(strategy, letter_index) ==
    LET base_index == CASE letter_index = 23 -> 11
                        [] letter_index = 24 -> 13
                        [] letter_index = 25 -> 14
                        [] letter_index = 26 -> 17
                        [] letter_index = 27 -> 18
                        [] OTHER -> letter_index
        letter == index_to_char(strategy.char_to_index, strategy.order, base_index)
    IN  IF letter # << >>
        THEN explode_full_letters(strategy.filled_letters, strategy.char_to_index, letter[1])
        ELSE 0

OtyiotBeMilui_calculate_value(strategy, letter_index) ==
    LET letter == index_to_char(strategy.char_to_index, strategy.order, letter_index)
    IN  IF letter # << >>
        THEN explode_full_letters(strategy.filled_letters, strategy.char_to_index, letter[1])
        ELSE 0

(* A strategy object: its method_type, and for OtyiotBeMilui the two maps it owns *)
(* and the iteration order of its char_to_index.                                *)
UnitStrategy(method) ==
    [method |-> method, filled_letters |-> << >>, char_to_index |-> << >>, order |-> << >>]

(* Dynamic dispatch of GematriaCalculation::calculate_value. *)
strategy_calculate_value(strategy, letter_index) ==
    CASE strategy.method = "MisparHechrechi" -> MisparHechrechi_calculate_value(letter_index)
      [] strategy.method = "MisparGadol" -> MisparGadol_calculate_value(letter_index)
      [] strategy.method = "MisparKatan" -> MisparKatan_calculate_value(letter_index)
      [] strategy.method = "OtiyotBeMilui" -> OtyiotBeMilui_calculate_value(strategy, letter_index)

(* A variant whose last arm falls back to MisparHechrechi. *)
process_method_dyn_defaulting(method, char_map, order) ==
    CASE method \in {"MisparHechrechi", "MisparGadol", "MisparKatan"} ->
            [panic |-> FALSE, strategy |-> UnitStrategy(method)]
      [] method = "OtiyotBeMilui" ->
            [panic |-> FALSE,
             strategy |-> [method |-> method,
                           filled_letters |-> create_hebrew_filled_letters_map,
                           char_to_index |-> char_map,
                           order |-> order]]
      [] OTHER -> [panic |-> FALSE, strategy |-> UnitStrategy("MisparHechrechi")]

(* process_method_dyn: the strategy for a method, or a panic (unimplemented!). *)
process_method_dyn(method, char_map, order) ==
    CASE method \in {"MisparHechrechi", "MisparGadol", "MisparKatan"} ->
            [panic |-> FALSE, strategy |-> UnitStrategy(method)]
      [] method = "OtiyotBeMilui" ->
            [panic |-> FALSE,
             strategy |-> [method |-> method,
                           filled_letters |-> create_hebrew_filled_letters_map,
                           char_to_index |-> char_map,
                           order |-> order]]
      [] OTHER -> [panic |-> TRUE, strategy |-> UnitStrategy(method)]

----------------------------------------------------------------------------
(* GematriaContext: private helpers (lib.rs). *)

(* A variant whose range runs on into the letters, up to het. *)
is_hebrew_vowel_wide(c) == c >= VowelFirst /\ c <= het

is_hebrew_vowel(c) == c >= VowelFirst /\ c <= VowelLast

remove_hebrew_vowels(text) == SelectSeq(text, LAMBDA c : ~is_hebrew_vowel(c))

(* A variant with the flag read the wrong way round. *)
handle_vowels_inverted(ctx, word) ==
    IF ctx.preserve_vowels THEN remove_hebrew_vowels(word) ELSE word

handle_vowels(ctx, word) ==
    IF ctx.preserve_vowels THEN word ELSE remove_hebrew_vowels(word)

get_character_index(ctx, character) == Get(ctx.character_map, character)

(* A variant that stops at the first char without an index. *)
get_indices_until_unmapped(ctx, word) ==
    LET unmapped == {i \in DOMAIN word : word[i] \notin DOMAIN ctx.character_map}
        stop == IF unmapped = {} THEN Len(word) + 1
                ELSE CHOOSE i \in unmapped : \A j \in unmapped : i <= j
    IN  [i \in 1..(stop - 1) |-> ctx.character_map[word[i]]]

(* filter_map over the chars: the indices of the chars that have one, in order. *)
get_indices_for_word(ctx, word) ==
    LET mapped == SelectSeq(word, LAMBDA c : c \in DOMAIN ctx.character_map)
    IN  [i \in DOMAIN mapped |-> ctx.character_map[mapped[i]]]

calculate_value_no_cache(ctx, word) ==
    LET indices == get_indices_for_word(ctx, word)
    IN  SumSeq([i \in DOMAIN indices |->
                   strategy_calculate_value(ctx.calculation_strategy, indices[i])])

get_current_method(ctx) == ctx.calculation_strategy.method

(* A variant of the key that leaves the method out. *)
cache_key_text_only(method, string) == <<"", string>>

(* The key of a cache entry: (GematriaMethod, String). *)
cache_key(method, string) == <<method, string>>

GematriaResult_new(value, method, word) ==
    [value |-> value, method |-> method, word |-> word]

(* The context as a value: the fields of GematriaContext. *)
Ctx ==
    [character_map |-> character_map,
     calculation_strategy |-> calculation_strategy,
     cache |-> cache,
     preserve_vowels |-> preserve_vowels]

(* GematriaContext::calculate_char_value as a function of the context: the     *)
(* value returned, the cache afterwards, the entries inserted and whether the  *)
(* value came from the cache.                                                  *)
(* A variant of calculate_char_value that never inserts. *)
do_calculate_char_value_no_insert(ctx, character) ==
    LET method == get_current_method(ctx)
        key == cache_key(method, <<character>>)
        index == get_character_index(ctx, character)
    IN  IF ctx.cache.some /\ key \in DOMAIN ctx.cache.map
        THEN [value |-> ctx.cache.map[key], cache |-> ctx.cache,
              inserted |-> {}, hit |-> TRUE]
        ELSE IF index # << >>
        THEN [value |-> strategy_calculate_value(ctx.calculation_strategy, index[1]),
              cache |-> ctx.cache, inserted |-> {}, hit |-> FALSE]
        ELSE [value |-> 0, cache |-> ctx.cache, inserted |-> {}, hit |-> FALSE]

(* A variant of calculate_char_value that caches the index of the char. *)
do_calculate_char_value_caching_index(ctx, character) ==
    LET method == get_current_method(ctx)
        key == cache_key(method, <<character>>)
        index == get_character_index(ctx, character)
    IN  IF ctx.cache.some /\ key \in DOMAIN ctx.cache.map
        THEN [value |-> ctx.cache.map[key], cache |-> ctx.cache,
              inserted |-> {}, hit |-> TRUE]
        ELSE IF index # << >>
        THEN LET value == strategy_calculate_value(ctx.calculation_strategy, index[1])
             IN  IF ctx.cache.some
                 THEN [value |-> value,
                       cache |-> [ctx.cache EXCEPT !.map = (key :> index[1]) @@ @],
                       inserted |-> {<<key, index[1]>>}, hit |-> FALSE]
                 ELSE [value |-> value, cache |-> ctx.cache,
                       inserted |-> {}, hit |-> FALSE]
        ELSE [value |-> 0, cache |-> ctx.cache, inserted |-> {}, hit |-> FALSE]

do_calculate_char_value(ctx, character) ==
    LET method == get_current_method(ctx)
        key == cache_key(method, <<character>>)
        index == get_character_index(ctx, character)
    IN  IF ctx.cache.some /\ key \in DOMAIN ctx.cache.map
        THEN [value |-> ctx.cache.map[key], cache |-> ctx.cache,
              inserted |-> {}, hit |-> TRUE]
        ELSE IF index # << >>
        THEN LET value == strategy_calculate_value(ctx.calculation_strategy, index[1])
             IN  IF ctx.cache.some
                 THEN [value |-> value,
                       cache |-> [ctx.cache EXCEPT !.map = (key :> value) @@ @],
                       inserted |-> {<<key, value>>}, hit |-> FALSE]
                 ELSE [value |-> value, cache |-> ctx.cache,
                       inserted |-> {}, hit |-> FALSE]
        ELSE [value |-> 0, cache |-> ctx.cache, inserted |-> {}, hit |-> FALSE]

(* A variant of calculate_value whose cache hit carries the text as given      *)
(* instead of the processed text.                                              *)
do_calculate_value_raw_word_on_hit(ctx, text) ==
    LET method == get_current_method(ctx)
        processed_text == handle_vowels(ctx, text)
        key == cache_key(method, processed_text)
        val == calculate_value_no_cache(ctx, processed_text)
    IN  IF ctx.cache.some
        THEN IF key \in DOMAIN ctx.cache.map
             THEN [result |-> GematriaResult_new(ctx.cache.map[key], method, text),
                   cache |-> ctx.cache, inserted |-> {}, hit |-> TRUE]
             ELSE [result |-> GematriaResult_new(val, method, processed_text),
                   cache |-> [ctx.cache EXCEPT !.map = (key :> val) @@ @],
                   inserted |-> {<<key, val>>}, hit |-> FALSE]
        ELSE [result |-> GematriaResult_new(val, method, processed_text),
              cache |-> ctx.cache, inserted |-> {}, hit |-> FALSE]

(* GematriaContext::calculate_value as a function of the context. *)
do_calculate_value(ctx, text) ==
    LET method == get_current_method(ctx)
        processed_text == handle_vowels(ctx, text)
        key == cache_key(method, processed_text)
    IN  IF ctx.cache.some
        THEN IF key \in DOMAIN ctx.cache.map
             THEN [result |-> GematriaResult_new(ctx.cache.map[key], method, processed_text),
                   cache |-> ctx.cache, inserted |-> {}, hit |-> TRUE]
             ELSE LET val == calculate_value_no_cache(ctx, processed_text)
                  IN  [result |-> GematriaResult_new(val, get_current_method(ctx),
                                                     processed_text),
                       cache |-> [ctx.cache EXCEPT !.map = (key :> val) @@ @],
                       inserted |-> {<<key, val>>}, hit |-> FALSE]
        ELSE LET val == calculate_value_no_cache(ctx, processed_text)
             IN  [result |-> GematriaResult_new(val, get_current_method(ctx),
                                                processed_text),
                  cache |-> ctx.cache, inserted |-> {}, hit |-> FALSE]

(* char::is_whitespace, the separators of str::split_whitespace. *)
WhiteSpace ==
    (9..13) \cup {32, 133, 160, 5760} \cup (8192..8202) \cup {8232, 8233, 8239, 8287, 12288}

(* str::split on a set of separator chars: empty pieces are kept. *)
RECURSIVE split(_, _)
split(s, seps) ==
    LET at == {i \in DOMAIN s : s[i] \in seps}
    IN  IF at = {} THEN <<s>>
        ELSE LET i == CHOOSE i \in at : \A j \in at : i <= j
             IN  <<SubSeq(s, 1, i - 1)>> \o split(SubSeq(s, i + 1, Len(s)), seps)

(* str::split_whitespace: the non-empty pieces between whitespace. *)
split_whitespace(text) == SelectSeq(split(text, WhiteSpace), LAMBDA w : w # << >>)

RECURSIVE Flatten(_)
Flatten(ss) == IF ss = << >> THEN << >> ELSE ss[1] \o Flatten(Tail(ss))

(* A variant that treats the maqaf as one more whitespace char, so that no     *)
(* empty word comes out.                                                       *)
words_of_nonempty(text) ==
    SelectSeq(split(text, WhiteSpace \cup {maqaf}), LAMBDA w : w # << >>)

(* text.split_whitespace().flat_map(|w| w.split('\u{05BE}')) *)
words_of(text) ==
    LET chunks == split_whitespace(text)
    IN  Flatten([i \in DOMAIN chunks |-> split(chunks[i], {maqaf})])

(* A variant of the filter_map closure that keeps one occurrence of a match. *)
RECURSIVE search_scan_distinct(_, _, _)
search_scan_distinct(ctx, words, target_value) ==
    IF words = << >>
    THEN [cache |-> ctx.cache, inserted |-> {}, out |-> << >>]
    ELSE LET processed_text == handle_vowels(ctx, Head(words))
             r == do_calculate_value(ctx, processed_text)
             rest == search_scan_distinct([ctx EXCEPT !.cache = r.cache], Tail(words),
                                          target_value)
             found == r.result.value = target_value
                      /\ \A i \in DOMAIN rest.out : rest.out[i] # processed_text
         IN  [cache |-> rest.cache,
              inserted |-> r.inserted \cup rest.inserted,
              out |-> (IF found THEN <<processed_text>> ELSE << >>) \o rest.out]

(* The filter_map closure of search_matching_words / search_matching_values    *)
(* run over the words: each word goes through calculate_value, which may fill  *)
(* the cache.                                                                  *)
RECURSIVE search_scan(_, _, _)
search_scan(ctx, words, target_value) ==
    IF words = << >>
    THEN [cache |-> ctx.cache, inserted |-> {}, out |-> << >>]
    ELSE LET processed_text == handle_vowels(ctx, Head(words))
             r == do_calculate_value(ctx, processed_text)
             word_value == r.result.value
             rest == search_scan([ctx EXCEPT !.cache = r.cache], Tail(words), target_value)
         IN  [cache |-> rest.cache,
              inserted |-> r.inserted \cup rest.inserted,
              out |-> (IF word_value = target_value THEN <<processed_text>> ELSE << >>)
                      \o rest.out]

(* A variant that pushes even when the item is there. *)
push_always(vec, item) == Append(vec, item)

(* Vec<String>::push_if_not_exists *)
push_if_not_exists(vec, item) ==
    IF \E i \in DOMAIN vec : vec[i] = item THEN vec ELSE Append(vec, item)

(* The loop of group_words_by_gematria: grouped_words maps a value to its words. *)
RECURSIVE group_scan(_, _, _)
group_scan(ctx, words, grouped_words) ==
    IF words = << >>
    THEN [cache |-> ctx.cache, inserted |-> {}, grouped_words |-> grouped_words]
    ELSE LET processed_text == handle_vowels(ctx, Head(words))
             r == do_calculate_value(ctx, processed_text)
             value == r.result.value
             entry == IF value \in DOMAIN grouped_words THEN grouped_words[value] ELSE << >>
             grouped == (value :> push_if_not_exists(entry, processed_text)) @@ grouped_words
             rest == group_scan([ctx EXCEPT !.cache = r.cache], Tail(words), grouped)
         IN  [cache |-> rest.cache,
              inserted |-> r.inserted \cup rest.inserted,
              grouped_words |-> rest.grouped_words]

(* grouped_words.retain(|_, v| v.len() > 1), as the set of (value, words) pairs. *)
retain_groups(grouped_words) ==
    {<<v, grouped_words[v]>> : v \in {x \in DOMAIN grouped_words : Len(grouped_words[x]) > 1}}

(* A variant of the comparator that looks at the lengths only. *)
sorted_before_by_len(a, b) == Len(a[2]) >= Len(b[2])

(* The comparator of sort_by does not put b before a. *)
sorted_before(a, b) ==
    \/ Len(a[2]) > Len(b[2])
    \/ Len(a[2]) = Len(b[2]) /\ a[1] <= b[1]

(* The outcomes of collecting the map in some iteration order and sorting it   *)
(* stably: every arrangement of the pairs that the comparator accepts.         *)
sorted_groupings(pairs) ==
    {g \in [1..Cardinality(pairs) -> pairs] :
        /\ \A i, j \in DOMAIN g : i # j => g[i] # g[j]
        /\ \A i, j \in DOMAIN g : i < j => sorted_before(g[i], g[j])}

----------------------------------------------------------------------------
(* The record of a call, kept in `last`. *)

Call(op, text, method, value, word, hit) ==
    [op |-> op, text |-> text, method |-> method, value |-> value,
     word |-> word, hit |-> hit, out |-> << >>]

NoCall == Call("none", << >>, "", 0, << >>, FALSE)

NoCache == [some |-> FALSE, map |-> << >>]

(* first_value after the method m has been installed: an entry computed under  *)
(* A is in phase 0 until another method is installed (1), and in phase 2 once  *)
(* A is installed again.                                                       *)
Switched(fv, m) ==
    [k \in DOMAIN fv |->
        [fv[k] EXCEPT !.phase =
            IF @ = 0 /\ m # k[1] THEN 1
            ELSE IF @ = 1 /\ m = k[1] THEN 2
            ELSE @]]

----------------------------------------------------------------------------
(* The initial state: GematriaBuilder::new(), no context yet. *)

Init ==
    /\ builder = [method |-> << >>, enable_cache |-> FALSE, presevre_vowels |-> FALSE]
    /\ status = "building"
    /\ character_map = << >>
    /\ calculation_strategy = UnitStrategy("")
    /\ cache = NoCache
    /\ preserve_vowels = FALSE
    /\ last = NoCall
    /\ prev = NoCall
    /\ inserted = {}
    /\ first_value = << >>
    /\ steps = 0

engine_vars == <<character_map, calculation_strategy, cache, preserve_vowels,
                 last, prev, inserted, first_value, steps>>

(* GematriaBuilder *)

with_cache(enable) ==
    /\ status = "building"
    /\ builder' = [builder EXCEPT !.enable_cache = enable]
    /\ UNCHANGED <<status, engine_vars>>

with_method(method) ==
    /\ status = "building"
    /\ builder' = [builder EXCEPT !.method = <<method>>]
    /\ UNCHANGED <<status, engine_vars>>

with_vowels(presevre_vowels) ==
    /\ status = "building"
    /\ builder' = [builder EXCEPT !.presevre_vowels = presevre_vowels]
    /\ UNCHANGED <<status, engine_vars>>

(* GematriaContext::new: the context, or a panic out of process_method_dyn. *)
GematriaContext_new(char_map, method, enable_cache, preserve, order) ==
    LET made == process_method_dyn(method, char_map, order)
    IN  IF made.panic
        THEN /\ status' = "panicked"
             /\ UNCHANGED <<character_map, calculation_strategy, cache, preserve_vowels>>
        ELSE /\ status' = "ready"
             /\ character_map' = char_map
             /\ calculation_strategy' = made.strategy
             /\ cache' = IF enable_cache THEN [some |-> TRUE, map |-> << >>] ELSE NoCache
             /\ preserve_vowels' = preserve

init_gematria ==
    /\ status = "building"
    /\ LET char_to_index == create_hebrew_index_map
           method == IF builder.method = << >> THEN "MisparHechrechi"
                     ELSE builder.method[1]
       IN  \E order \in IterOrders :
               GematriaContext_new(char_to_index, method, builder.enable_cache,
                                   builder.presevre_vowels, order)
    /\ UNCHANGED <<builder, last, prev, inserted, first_value, steps>>

(* GematriaContext: the public calls. *)

calculate_char_value(character) ==
    /\ status = "ready"
    /\ LET r == do_calculate_char_value(Ctx, character)
       IN  /\ cache' = r.cache
           /\ inserted' = inserted \cup r.inserted
           /\ last' = Call("calculate_char_value", <<character>>,
                           get_current_method(Ctx), r.value, << >>, r.hit)
    /\ prev' = NoCall
    /\ steps' = steps + 1
    /\ UNCHANGED <<builder, status, character_map, calculation_strategy,
                   preserve_vowels, first_value>>

calculate_value(text) ==
    /\ status = "ready"
    /\ LET r == do_calculate_value(Ctx, text)
           k == <<r.result.method, text>>
       IN  /\ cache' = r.cache
           /\ inserted' = inserted \cup r.inserted
           /\ last' = Call("calculate_value", text, r.result.method, r.result.value,
                           r.result.word, r.hit)
           /\ first_value' = IF k \in DOMAIN first_value THEN first_value
                             ELSE (k :> [value |-> r.result.value, phase |-> 0])
                                  @@ first_value
    /\ prev' = IF last.op = "calculate_value" THEN last ELSE NoCall
    /\ steps' = steps + 1
    /\ UNCHANGED <<builder, status, character_map, calculation_strategy,
                   preserve_vowels>>

(* A variant of set_method that also empties the cache. *)
set_method_clearing(method) ==
    /\ status = "ready"
    /\ \E order \in IterOrders :
         LET made == process_method_dyn(method, character_map, order)
         IN  IF made.panic
             THEN /\ status' = "panicked"
                  /\ UNCHANGED <<calculation_strategy, first_value>>
             ELSE /\ status' = "ready"
                  /\ calculation_strategy' = made.strategy
                  /\ first_value' = Switched(first_value, method)
    /\ cache' = [cache EXCEPT !.map = << >>]
    /\ last' = Call("set_method", << >>, method, 0, << >>, FALSE)
    /\ prev' = NoCall
    /\ steps' = steps + 1
    /\ UNCHANGED <<builder, character_map, preserve_vowels, inserted>>

set_method(method) ==
    /\ status = "ready"
    /\ \E order \in IterOrders :
         LET made == process_method_dyn(method, character_map, order)
         IN  IF made.panic
             THEN /\ status' = "panicked"
                  /\ UNCHANGED <<calculation_strategy, first_value>>
             ELSE /\ status' = "ready"
                  /\ calculation_strategy' = made.strategy
                  /\ first_value' = Switched(first_value, method)
    /\ last' = Call("set_method", << >>, method, 0, << >>, FALSE)
    /\ prev' = NoCall
    /\ steps' = steps + 1
    /\ UNCHANGED <<builder, character_map, cache, preserve_vowels, inserted>>

search_matching_words(target_word, text) ==
    /\ status = "ready"
    /\ LET t == do_calculate_value(Ctx, target_word)
           target_value == t.result.value
           r == search_scan([Ctx EXCEPT !.cache = t.cache], words_of(text), target_value)
       IN  /\ cache' = r.cache
           /\ inserted' = inserted \cup t.inserted \cup r.inserted
           /\ last' = [Call("search_matching_words", text, get_current_method(Ctx),
                            target_value, target_word, FALSE) EXCEPT !.out = r.out]
    /\ prev' = NoCall
    /\ steps' = steps + 1
    /\ UNCHANGED <<builder, status, character_map, calculation_strategy,
                   preserve_vowels, first_value>>

search_matching_values(target_value, text) ==
    /\ status = "ready"
    /\ LET r == search_scan(Ctx, words_of(text), target_value)
       IN  /\ cache' = r.cache
           /\ inserted' = inserted \cup r.inserted
           /\ last' = [Call("search_matching_values", text, get_current_method(Ctx),
                            target_value, << >>, FALSE) EXCEPT !.out = r.out]
    /\ prev' = NoCall
    /\ steps' = steps + 1
    /\ UNCHANGED <<builder, status, character_map, calculation_strategy,
                   preserve_vowels, first_value>>

group_words_by_gematria(text) ==
    /\ status = "ready"
    /\ LET r == group_scan(Ctx, words_of(text), << >>)
       IN  /\ cache' = r.cache
           /\ inserted' = inserted \cup r.inserted
           /\ \E grouped_vec \in sorted_groupings(retain_groups(r.grouped_words)) :
                 last' = [Call("group_words_by_gematria", text, get_current_method(Ctx),
                               0, << >>, FALSE) EXCEPT !.out = grouped_vec]
    /\ prev' = NoCall
    /\ steps' = steps + 1
    /\ UNCHANGED <<builder, status, character_map, calculation_strategy,
                   preserve_vowels, first_value>>

----------------------------------------------------------------------------
(* Inputs. *)

CharInputs == {alef, mem_final, tsere}

TextInputs == { <<alef>>, <<gimel, tsere, mem_final>> }

TargetWords == { <<samekh, vav, dalet>>, <<alef>> }

TargetValues == {0, 70}

Haystacks ==
    { <<yod, yod, nun_final, space, samekh, vav, dalet>>,
      <<alef, tsere, maqaf, maqaf, 97>> }   \* 97 is 'a'

Build ==
    \/ \E enable \in BOOLEAN : with_cache(enable)
    \/ \E method \in GematriaMethod : with_method(method)
    \/ \E presevre_vowels \in BOOLEAN : with_vowels(presevre_vowels)
    \/ init_gematria

Next ==
    \/ Build
    \/ /\ steps < MaxSteps
       /\ \/ \E character \in CharInputs : calculate_char_value(character)
          \/ \E text \in TextInputs : calculate_value(text)
          \/ \E method \in GematriaMethod : set_method(method)
          \/ \E target_word \in TargetWords, text \in Haystacks :
                 search_matching_words(target_word, text)
          \/ \E target_value \in TargetValues, text \in Haystacks :
                 search_matching_values(target_value, text)
          \/ \E text \in Haystacks : group_words_by_gematria(text)

Spec == Init /\ [][Next]_vars

(* The calculations and set_method alone, over more calls. *)
SwitchNext ==
    \/ Build
    \/ /\ steps < MaxSwitchSteps
       /\ \/ \E character \in CharInputs : calculate_char_value(character)
          \/ \E text \in TextInputs : calculate_value(text)
          \/ \E method \in GematriaMethod : set_method(method)

SpecSwitch == Init /\ [][SwitchNext]_vars

(* calculate_char_value over every letter and some chars that are no letters. *)
AllChars == Range(letters) \cup {tsere, qamats, maqaf, space, 97}   \* 97 is 'a'

LettersNext ==
    \/ Build
    \/ /\ steps < MaxLetterSteps
       /\ \E character \in AllChars : calculate_char_value(character)

SpecLetters == Init /\ [][LettersNext]_vars

(* calculate_value over every text of up to MaxTextLen chars made of a letter, *)
(* a final form, a vowel mark and a space, and over the phrase of test_phrase. *)
TextAlphabet == {alef, mem_final, tsere, space}

RECURSIVE SeqsUpTo(_, _)
SeqsUpTo(S, n) ==
    IF n = 0 THEN {<< >>}
    ELSE LET shorter == SeqsUpTo(S, n - 1)
         IN  shorter \cup {Append(t, c) : t \in {x \in shorter : Len(x) = n - 1}, c \in S}

bh_phrase == <<bet, ayin, zayin, resh, tav, space, he, shin, mem_final>>

Texts == SeqsUpTo(TextAlphabet, MaxTextLen) \cup {bh_phrase}

TextNext ==
    \/ Build
    \/ /\ steps < MaxTextSteps
       /\ \/ \E character \in TextAlphabet : calculate_char_value(character)
          \/ \E text \in Texts : calculate_value(text)

SpecText == Init /\ [][TextNext]_vars

(* The searches and the grouping, over a text with repeated words, words that  *)
(* differ in their vowel marks only, and three values shared by several words. *)
grouping_text ==
    <<gimel, space, bet, maqaf, 97, bet, space, space, bet, space,
      alef, bet, maqaf, bet, tsere, space, alef, maqaf, 97, space, alef, 97>>

SearchHaystacks == Haystacks \cup {grouping_text}

SearchTargets == { <<samekh, vav, dalet>>, <<bet>> }

SearchValues == {0, 2, 70}

SearchNext ==
    \/ Build
    \/ /\ steps < MaxSearchSteps
       /\ \/ \E target_word \in SearchTargets, text \in SearchHaystacks :
                 search_matching_words(target_word, text)
          \/ \E target_value \in SearchValues, text \in SearchHaystacks :
                 search_matching_values(target_value, text)
          \/ \E text \in SearchHaystacks : group_words_by_gematria(text)

SpecSearch == Init /\ [][SearchNext]_vars

(* The searches and the grouping over texts whose chunks begin with, end in or *)
(* double a maqaf, or are a maqaf alone, and over one text without a maqaf.    *)
MaqafHaystacks ==
    { <<maqaf, 97, space, alef, maqaf, maqaf, bet, space, gimel, maqaf>>,
      <<alef, maqaf>>,
      <<maqaf, space, tsere>>,
      <<alef, space, 97>> }   \* 97 is 'a'

MaqafTargets == { <<97>>, <<alef>> }

MaqafValues == {0, 1}

MaqafNext ==
    \/ Build
    \/ /\ steps < MaxSearchSteps
       /\ \/ \E target_word \in MaqafTargets, text \in MaqafHaystacks :
                 search_matching_words(target_word, text)
          \/ \E target_value \in MaqafValues, text \in MaqafHaystacks :
                 search_matching_values(target_value, text)
          \/ \E text \in MaqafHaystacks : group_words_by_gematria(text)

SpecMaqaf == Init /\ [][MaqafNext]_vars

----------------------------------------------------------------------------
(* Claims. *)

ResultOf(call) == GematriaResult_new(call.value, call.method, call.word)

(* What a context with the same configuration but no cache returns for text. *)
UncachedResult(text) == do_calculate_value([Ctx EXCEPT !.cache = NoCache], text).result

(* C1: cache transparency.  On a context with caching enabled, the result of   *)
(* calculate_value(x) (value, method and word) is the result a context with    *)
(* the same configuration and no cache returns for x, and two consecutive      *)
(* calculate_value(x) calls return identical results.                          *)
C1_CacheTransparency ==
    (cache.some /\ last.op = "calculate_value") =>
        /\ ResultOf(last) = UncachedResult(last.text)
        /\ (prev.op = "calculate_value" /\ prev.text = last.text) =>
               ResultOf(prev) = ResultOf(last)

(* C1 witness: the second of two consecutive calls on a vowelled word was      *)
(* answered from the cache entry the first one made.                           *)
C1_Witness ==
    /\ cache.some
    /\ ~preserve_vowels
    /\ last.op = "calculate_value" /\ last.hit
    /\ prev.op = "calculate_value" /\ ~prev.hit
    /\ prev.text = last.text
    /\ last.text = <<gimel, tsere, mem_final>>
    /\ last.value > 0

(* C2: method-switch isolation.  When x was computed under method A, another   *)
(* method was installed, and A was installed again, calculate_value(x) returns *)
(* the value of the first computation under A, with or without a cache.        *)
C2_MethodSwitchIsolation ==
    (last.op = "calculate_value"
        /\ first_value[<<last.method, last.text>>].phase = 2) =>
            last.value = first_value[<<last.method, last.text>>].value

(* C2 witness: without a cache, x recomputed under OtiyotBeMilui after a       *)
(* switch away and back.                                                       *)
C2_Witness ==
    /\ ~cache.some
    /\ last.op = "calculate_value"
    /\ last.method = "OtiyotBeMilui"
    /\ last.text = <<gimel, tsere, mem_final>>
    /\ first_value[<<last.method, last.text>>].phase = 2
    /\ last.value = 83

(* C3: no stale cache hit across methods.  With caching enabled, a character   *)
(* or text that has an entry under another method still gets the value of the  *)
(* current method; aleph is 1 under MisparHechrechi and 111 after the switch   *)
(* to OtiyotBeMilui.                                                           *)
C3_NoStaleHit ==
    (cache.some /\ last.op \in {"calculate_char_value", "calculate_value"}) =>
        LET current == get_current_method(Ctx)
            string == IF last.op = "calculate_value"
                      THEN handle_vowels(Ctx, last.text) ELSE last.text
        IN  /\ (\E A \in Implemented \ {current} :
                    cache_key(A, string) \in DOMAIN cache.map) =>
                   /\ last.method = current
                   /\ last.value = calculate_value_no_cache(Ctx, string)
            /\ (last.text = <<alef>> /\ current = "MisparHechrechi") => last.value = 1
            /\ (last.text = <<alef>> /\ current = "OtiyotBeMilui") => last.value = 111

(* C3 witness: aleph was cached as 1 under MisparHechrechi, and                *)
(* calculate_char_value(aleph) after set_method(OtiyotBeMilui) returned 111.   *)
C3_Witness ==
    /\ cache.some
    /\ last.op = "calculate_char_value"
    /\ last.text = <<alef>>
    /\ last.method = "OtiyotBeMilui"
    /\ last.value = 111
    /\ <<"MisparHechrechi", <<alef>> >> \in DOMAIN cache.map
    /\ cache.map[<<"MisparHechrechi", <<alef>> >>] = 1

(* C4: cache entries persist.  Every entry ever inserted into the cache, by    *)
(* any of the calls, is still in the cache with the value it was inserted      *)
(* with, and a set_method call leaves the whole cache as it was.               *)
C4_CacheEntriesPersist ==
    /\ [](\A e \in inserted : e[1] \in DOMAIN cache.map /\ cache.map[e[1]] = e[2])
    /\ [][(last'.op = "set_method" /\ steps' = steps + 1) => cache' = cache]_vars

(* C4 witness: set_method has just run on a cache that holds entries made by a *)
(* search under the method it replaced.                                        *)
C4_Witness ==
    /\ cache.some
    /\ status = "ready"
    /\ last.op = "set_method"
    /\ Cardinality(inserted) >= 2
    /\ \A e \in inserted : e[1][1] # get_current_method(Ctx)
    /\ \A e \in inserted : e[1] \in DOMAIN cache.map

(* C5: a builder asked for MisparSiduri, MisparBoneh, MisparMeugal or          *)
(* MisparMusafi never yields a context: init_gematria panics, and no call ever *)
(* returns anything for such a request.                                        *)
C5_UnimplementedFailsAtConstruction ==
    (/\ status # "building"
     /\ builder.method # << >>
     /\ builder.method[1] \in
            {"MisparSiduri", "MisparBoneh", "MisparMeugal", "MisparMusafi"}) =>
        /\ status = "panicked"
        /\ character_map = << >>
        /\ last = NoCall
        /\ steps = 0

(* C5 witness: init_gematria on a builder with MisparSiduri has panicked. *)
C5_Witness ==
    /\ status = "panicked"
    /\ builder.method = <<"MisparSiduri">>
    /\ steps = 0

(* The values the claims state, letter by letter. *)

BaseLetters ==
    <<alef, bet, gimel, dalet, he, vav, zayin, het, tet, yod, kaf, lamed, mem,
      nun, samekh, ayin, pe, tsadi, qof, resh, shin, tav>>

FinalForms == <<kaf_final, mem_final, nun_final, pe_final, tsadi_final>>

BaseOfFinal == <<kaf, mem, nun, pe, tsadi>>

StandardValues ==
    <<1, 2, 3, 4, 5, 6, 7, 8, 9, 10, 20, 30, 40, 50, 60, 70, 80, 90, 100, 200, 300, 400>>

GadolFinalValues == <<500, 600, 700, 800, 900>>

MiluiValues ==
    <<111, 412, 83, 434, 6, 22, 67, 418, 419, 20, 100, 74, 80, 106, 120, 130, 81,
      104, 186, 510, 360, 416>>

PosIn(s, c) == CHOOSE i \in DOMAIN s : s[i] = c

StandardValueOf(c) ==
    IF c \in Range(BaseLetters) THEN StandardValues[PosIn(BaseLetters, c)]
    ELSE StandardValues[PosIn(BaseLetters, BaseOfFinal[PosIn(FinalForms, c)])]

GadolValueOf(c) ==
    IF c \in Range(BaseLetters) THEN StandardValues[PosIn(BaseLetters, c)]
    ELSE GadolFinalValues[PosIn(FinalForms, c)]

DigitalRoot(n) == IF n = 0 THEN 0 ELSE 1 + ((n - 1) % 9)

IsLetter(c) == c \in Range(BaseLetters) \cup Range(FinalForms)

CharValueCall(method) ==
    /\ last.op = "calculate_char_value"
    /\ last.method = method
    /\ IsLetter(last.text[1])

(* C6: under MisparHechrechi calculate_char_value gives the 22 base letters    *)
(* 1..9, 10..90, 100..400 and each final form the value of its base letter     *)
(* (20, 40, 50, 80, 90).                                                       *)
C6_HechrechiTable ==
    CharValueCall("MisparHechrechi") =>
        /\ last.value = StandardValueOf(last.text[1])
        /\ \A i \in DOMAIN FinalForms :
               last.text[1] = FinalForms[i] => last.value = <<20, 40, 50, 80, 90>>[i]

(* C6 witness: final tsadi was computed under MisparHechrechi and is 90. *)
C6_Witness ==
    /\ CharValueCall("MisparHechrechi")
    /\ last.text = <<tsadi_final>>
    /\ last.value = 90
    /\ ~last.hit

(* C7: under MisparGadol the final forms are 500, 600, 700, 800, 900 (above    *)
(* 400 and unlike their base letters), and every other letter has its          *)
(* MisparHechrechi value.                                                      *)
C7_GadolTable ==
    CharValueCall("MisparGadol") =>
        /\ last.value = GadolValueOf(last.text[1])
        /\ last.text[1] \in Range(FinalForms) =>
               /\ last.value > 400
               /\ last.value # StandardValueOf(last.text[1])
        /\ last.text[1] \in Range(BaseLetters) =>
               last.value = StandardValueOf(last.text[1])

(* C7 witness: final kaf was computed under MisparGadol and is 500. *)
C7_Witness ==
    /\ CharValueCall("MisparGadol")
    /\ last.text = <<kaf_final>>
    /\ last.value = 500
    /\ ~last.hit

(* C8: under MisparKatan every letter has a value in 1..9, the digital root of *)
(* its MisparGadol value (9 and never 0 for a multiple of 9); tsadi and final  *)
(* tsadi are both 9.                                                           *)
C8_KatanDigitalRoot ==
    CharValueCall("MisparKatan") =>
        /\ last.value \in 1..9
        /\ last.value = DigitalRoot(GadolValueOf(last.text[1]))
        /\ last.text[1] \in {tsadi, tsadi_final} => last.value = 9

(* C8 witness: final tsadi (900) was computed under MisparKatan and is 9. *)
C8_Witness ==
    /\ CharValueCall("MisparKatan")
    /\ last.text = <<tsadi_final>>
    /\ last.value = 9
    /\ ~last.hit

(* C9: under OtiyotBeMilui each of the 22 base letters has the sum of the      *)
(* MisparHechrechi values of the letters that spell its name: 111, 412, 83,    *)
(* 434, 6, 22, 67, 418, 419, 20, 100, 74, 80, 106, 120, 130, 81, 104, 186,     *)
(* 510, 360, 416.                                                              *)
C9_MiluiTable ==
    (CharValueCall("OtiyotBeMilui") /\ last.text[1] \in Range(BaseLetters)) =>
        /\ last.value = MiluiValues[PosIn(BaseLetters, last.text[1])]
        /\ LET name == create_hebrew_filled_letters_map[last.text[1]]
           IN  last.value = SumSeq([i \in DOMAIN name |-> StandardValueOf(name[i])])

(* C9 witness: aleph (aleph, lamed, final pe) was computed under OtiyotBeMilui *)
(* and is 111.                                                                 *)
C9_Witness ==
    /\ CharValueCall("OtiyotBeMilui")
    /\ last.text = <<alef>>
    /\ last.value = 111
    /\ ~last.hit

(* C10: the index table of a context has exactly 27 entries, the base letters  *)
(* at 1..22 and the final forms at 23..27; no two chars share an index, so the *)
(* reverse lookup of OtiyotBeMilui finds the same char for an index in every   *)
(* iteration order; no other char has an entry.                                *)
C10_IndexTable ==
    status = "ready" =>
        /\ Cardinality(DOMAIN character_map) = 27
        /\ DOMAIN character_map = Range(BaseLetters) \cup Range(FinalForms)
        /\ \A i \in DOMAIN BaseLetters : character_map[BaseLetters[i]] = i
        /\ \A i \in DOMAIN FinalForms : character_map[FinalForms[i]] = 22 + i
        /\ \A c, d \in DOMAIN character_map :
               character_map[c] = character_map[d] => c = d
        /\ \A index \in 1..27 : \A order \in IterOrders :
               index_to_char(character_map, order, index)
                   = <<(BaseLetters \o FinalForms)[index]>>
        /\ \A c \in AllChars : ~IsLetter(c) => get_character_index(Ctx, c) = << >>
        /\ (calculation_strategy.method = "OtiyotBeMilui") =>
               calculation_strategy.char_to_index = character_map
        /\ (last.op = "calculate_char_value" /\ ~IsLetter(last.text[1])) => last.value = 0

(* C10 witness: an OtiyotBeMilui strategy that scans its table in reverse      *)
(* order found kaf for index 11 and returned 100.                              *)
C10_Witness ==
    /\ status = "ready"
    /\ calculation_strategy.method = "OtiyotBeMilui"
    /\ calculation_strategy.order = Reverse(letters)
    /\ last.op = "calculate_char_value"
    /\ last.text = <<kaf>>
    /\ last.value = 100

(* C11 as stated: in the index table of a context each final form has the     *)
(* position of its base letter (final kaf = kaf = 11, final mem = 13, final    *)
(* nun = 14, final pe = 17, final tsadi = 18).                                 *)
C11_FinalFormsAtBasePosition ==
    status = "ready" =>
        \A i \in DOMAIN FinalForms :
            /\ get_character_index(Ctx, FinalForms[i])
                   = get_character_index(Ctx, BaseOfFinal[i])
            /\ get_character_index(Ctx, FinalForms[i]) = <<(<<11, 13, 14, 17, 18>>)[i]>>

(* C11 amended: each final form has a position of its own, 23..27 in the order *)
(* final kaf, mem, nun, pe, tsadi, while its base letter is at 11, 13, 14, 17, *)
(* 18; get_character_index never returns the same index for the two.           *)
C11_FinalFormsOwnPosition ==
    status = "ready" =>
        \A i \in DOMAIN FinalForms :
            /\ get_character_index(Ctx, FinalForms[i]) = <<22 + i>>
            /\ get_character_index(Ctx, BaseOfFinal[i]) = <<(<<11, 13, 14, 17, 18>>)[i]>>
            /\ get_character_index(Ctx, FinalForms[i])
                   # get_character_index(Ctx, BaseOfFinal[i])

(* C11 witness: final mem, looked up at index 24, was valued 600 by            *)
(* MisparGadol, which mem at index 13 is not.                                  *)
C11_Witness ==
    /\ status = "ready"
    /\ get_character_index(Ctx, mem_final) = <<24>>
    /\ get_character_index(Ctx, mem) = <<13>>
    /\ last.op = "calculate_char_value"
    /\ last.method = "MisparGadol"
    /\ last.text = <<mem_final>>
    /\ last.value = 600

(* x with every char in U+0591..U+05C7 removed. *)
StripMarks(x) == SelectSeq(x, LAMBDA c : ~(c \in 1425..1479))

(* C12: with preserve_vowels the word of the result of calculate_value(x) is x *)
(* as given, marks included; without it the word is x with every char in      *)
(* U+0591..U+05C7 removed.                                                     *)
C12_WordField ==
    last.op = "calculate_value" =>
        /\ preserve_vowels => last.word = last.text
        /\ ~preserve_vowels => last.word = StripMarks(last.text)

(* C12 witness: a context that preserves vowels returned aleph with its tsere  *)
(* as the word.                                                                *)
C12_Witness ==
    /\ preserve_vowels
    /\ last.op = "calculate_value"
    /\ last.text = <<alef, tsere>>
    /\ last.word = <<alef, tsere>>
    /\ last.value > 0

(* C13: vowel marks never change the value.  The value of calculate_value(x)   *)
(* is the value the context gives x with its marks removed, and the value a    *)
(* context with the other preserve_vowels setting gives x, cache or no cache.  *)
C13_MarksDoNotCount ==
    last.op = "calculate_value" =>
        /\ last.value = do_calculate_value(Ctx, StripMarks(last.text)).result.value
        /\ last.value =
               do_calculate_value([Ctx EXCEPT !.preserve_vowels = ~@, !.cache = NoCache],
                                  last.text).result.value

(* C13 witness: gimel, tsere, final mem was answered from the cache by a       *)
(* context that removes vowels, with the value 3 + 40.                         *)
C13_Witness ==
    /\ cache.some
    /\ ~preserve_vowels
    /\ last.op = "calculate_value"
    /\ last.hit
    /\ last.method = "MisparHechrechi"
    /\ last.text = <<gimel, tsere, mem_final>>
    /\ last.value = 43

(* C14: phrase aggregation.  The value of calculate_value(text) is the sum of  *)
(* calculate_char_value(c) over the chars of the processed text; a char        *)
(* without an index counts 0, so an empty text or one without letters is 0;    *)
(* the phrase of test_phrase is 1024 under MisparHechrechi and 1584 under      *)
(* MisparGadol.                                                                *)
C14_PhraseAggregation ==
    last.op = "calculate_value" =>
        /\ last.value =
               SumSeq([i \in DOMAIN last.word |->
                          do_calculate_char_value(Ctx, last.word[i]).value])
        /\ (\A i \in DOMAIN last.text : ~IsLetter(last.text[i])) => last.value = 0
        /\ (last.text = bh_phrase /\ last.method = "MisparHechrechi") => last.value = 1024
        /\ (last.text = bh_phrase /\ last.method = "MisparGadol") => last.value = 1584

(* C14 witness: the phrase was computed under MisparGadol and is 1584. *)
C14_Witness ==
    /\ last.op = "calculate_value"
    /\ last.text = bh_phrase
    /\ last.method = "MisparGadol"
    /\ last.value = 1584

(* The tokens of a text, read char by char: whitespace ends the token that is  *)
(* open, a maqaf ends a token whether one is open or not, any other char       *)
(* belongs to the open token.                                                  *)
RECURSIVE TokensFrom(_, _, _, _)
TokensFrom(text, i, cur, open) ==
    IF i > Len(text) THEN (IF open THEN <<cur>> ELSE << >>)
    ELSE IF text[i] \in WhiteSpace
         THEN (IF open THEN <<cur>> ELSE << >>) \o TokensFrom(text, i + 1, << >>, FALSE)
    ELSE IF text[i] = 1470
         THEN <<cur>> \o TokensFrom(text, i + 1, << >>, TRUE)
    ELSE TokensFrom(text, i + 1, Append(cur, text[i]), TRUE)

(* The vowel-processed tokens of a text. *)
ProcessedTokens(text) ==
    LET toks == TokensFrom(text, 1, << >>, FALSE)
    IN  [i \in DOMAIN toks |-> IF preserve_vowels THEN toks[i] ELSE StripMarks(toks[i])]

(* The value of a word under the current method, no cache involved. *)
ValueOf(w) == calculate_value_no_cache(Ctx, w)

Matching(text, v) == SelectSeq(ProcessedTokens(text), LAMBDA w : ValueOf(w) = v)

(* C15: search_matching_words(target, haystack) returns the processed tokens   *)
(* of the haystack whose value under the current method is the value of the    *)
(* target, in haystack order, repeated occurrences kept and the target itself  *)
(* not excluded; search_matching_values(v, haystack) returns the same list for *)
(* that v.                                                                     *)
C15_SearchMatches ==
    /\ last.op = "search_matching_words" =>
           /\ last.value = ValueOf(IF preserve_vowels THEN last.word
                                   ELSE StripMarks(last.word))
           /\ last.out = Matching(last.text, last.value)
    /\ last.op = "search_matching_values" =>
           last.out = Matching(last.text, last.value)

(* C15 witness: the search for bet in the grouping text returned bet twice,    *)
(* with the two other words of value 2 in their places.                        *)
C15_Witness ==
    /\ preserve_vowels
    /\ last.op = "search_matching_words"
    /\ last.method = "MisparHechrechi"
    /\ last.word = <<bet>>
    /\ last.out = << <<bet>>, <<97, bet>>, <<bet>>, <<bet, tsere>> >>

FirstPos(seq, x) == CHOOSE i \in DOMAIN seq : seq[i] = x /\ \A j \in 1..(i - 1) : seq[j] # x

(* C16: group_words_by_gematria(text) returns one group per value that at      *)
(* least 2 distinct processed tokens have, and no other; a group lists every   *)
(* distinct processed token of its value once, in order of first occurrence.   *)
C16_Groups ==
    last.op = "group_words_by_gematria" =>
        LET toks == ProcessedTokens(last.text)
            Words(v) == {w \in Range(toks) : ValueOf(w) = v}
            shared == {v \in {ValueOf(w) : w \in Range(toks)} : Cardinality(Words(v)) >= 2}
        IN  /\ {last.out[i][1] : i \in DOMAIN last.out} = shared
            /\ Len(last.out) = Cardinality(shared)
            /\ \A i \in DOMAIN last.out :
                 LET v == last.out[i][1]
                     group == last.out[i][2]
                 IN  /\ Range(group) = Words(v)
                     /\ Len(group) = Cardinality(Words(v))
                     /\ Len(group) > 1
                     /\ \A a, b \in DOMAIN group :
                          a < b => FirstPos(toks, group[a]) < FirstPos(toks, group[b])

(* C16 witness: without preserve_vowels the grouping text gave three groups,   *)
(* and bet with a tsere counted as the bet already there.                      *)
C16_Witness ==
    /\ ~preserve_vowels
    /\ last.op = "group_words_by_gematria"
    /\ last.method = "MisparHechrechi"
    /\ last.text = grouping_text
    /\ Len(last.out) = 3
    /\ \E i \in DOMAIN last.out : last.out[i] = <<2, << <<bet>>, <<97, bet>> >> >>

(* C17: the groups come by descending number of words, and groups with the     *)
(* same number of words by ascending value; no two groups compare equal, so    *)
(* the entries of the output can be arranged in that one way only.             *)
C17_GroupOrder ==
    last.op = "group_words_by_gematria" =>
        /\ \A i, j \in DOMAIN last.out :
             i < j => \/ Len(last.out[i][2]) > Len(last.out[j][2])
                      \/ /\ Len(last.out[i][2]) = Len(last.out[j][2])
                         /\ last.out[i][1] < last.out[j][1]
        /\ sorted_groupings(Range(last.out)) = {last.out}

(* C17 witness: with preserve_vowels the group of value 2 has three words and  *)
(* comes first, the groups of values 1 and 3 have two and follow in that order.*)
C17_Witness ==
    /\ preserve_vowels
    /\ last.op = "group_words_by_gematria"
    /\ last.text = grouping_text
    /\ Len(last.out) = 3
    /\ last.out[1] = <<2, << <<bet>>, <<97, bet>>, <<bet, tsere>> >> >>
    /\ last.out[2] = <<1, << <<alef>>, <<alef, 97>> >> >>
    /\ last.out[3] = <<3, << <<gimel>>, <<alef, bet>> >> >>

(* The cache key of the last call: the method with the char as a string, or    *)
(* with the processed text.                                                    *)
LastKey ==
    <<last.method, IF last.op = "calculate_char_value" THEN last.text ELSE last.word>>

(* C18 as stated: with caching enabled, after every calculate_char_value or    *)
(* calculate_value call the key of the call is in the cache.                   *)
C18_EveryMissInserts ==
    (cache.some /\ last.op \in {"calculate_char_value", "calculate_value"}) =>
        LastKey \in DOMAIN cache.map

(* C18: with caching enabled, the key of every calculate_value call is in the  *)
(* cache when the call returns, and so is the key of a calculate_char_value    *)
(* call for a char that has an index; a calculate_char_value miss for a char   *)
(* without an index returns 0 and inserts nothing.                             *)
C18_MissInsertsUnlessUnmappedChar ==
    cache.some =>
        /\ last.op = "calculate_value" => LastKey \in DOMAIN cache.map
        /\ (last.op = "calculate_char_value" /\ IsLetter(last.text[1])) =>
               LastKey \in DOMAIN cache.map
        /\ (last.op = "calculate_char_value" /\ ~IsLetter(last.text[1]) /\ ~last.hit) =>
               /\ last.value = 0
               /\ LastKey \notin DOMAIN cache.map

(* C18 witness: final mem was computed on a miss and its key is in the cache. *)
C18_Witness ==
    /\ cache.some
    /\ last.op = "calculate_char_value"
    /\ last.text = <<mem_final>>
    /\ ~last.hit
    /\ LastKey \in DOMAIN cache.map
    /\ cache.map[LastKey] = last.value

(* The value of a char under a method, from the tables the claims state. *)
LetterValue(method, c) ==
    IF ~IsLetter(c) THEN 0
    ELSE CASE method = "MisparHechrechi" -> StandardValueOf(c)
           [] method = "MisparGadol" -> GadolValueOf(c)
           [] method = "MisparKatan" -> DigitalRoot(GadolValueOf(c))
           [] method = "OtiyotBeMilui" ->
                  IF c \in Range(BaseLetters) THEN MiluiValues[PosIn(BaseLetters, c)] ELSE 0

UncachedSum(method, s) == SumSeq([i \in DOMAIN s |-> LetterValue(method, s[i])])

(* C19: cache coherence.  In every reachable state every cache entry           *)
(* (m, s) -> v has v = the sum of method m's letter values over the chars of   *)
(* s, although calculate_char_value and calculate_value share the keys.        *)
C19_CacheCoherence ==
    \A k \in DOMAIN cache.map : cache.map[k] = UncachedSum(k[1], k[2])

(* C19 witness: calculate_char_value put aleph in the cache, the only entry,   *)
(* and calculate_value of the one-char text aleph was then answered from it.   *)
C19_Witness ==
    /\ cache.some
    /\ steps = 2
    /\ prev = NoCall
    /\ last.op = "calculate_value"
    /\ last.hit
    /\ last.text = <<alef>>
    /\ DOMAIN cache.map = {<<"OtiyotBeMilui", <<alef>>>>}
    /\ last.value = 111

(* x without its final forms. *)
StripFinals(x) == SelectSeq(x, LAMBDA c : c \notin Range(FinalForms))

(* C20: under OtiyotBeMilui an index the spelled-out table does not cover      *)
(* gives 0: the final forms (23..27) have the char value 0 and a word's value  *)
(* is the value of the word without them, while each of the 22 base letters    *)
(* has a value above 0.                                                        *)
C20_MiluiFinalsAreZero ==
    (status = "ready" /\ calculation_strategy.method = "OtiyotBeMilui") =>
        /\ \A index \in 23..28 : strategy_calculate_value(calculation_strategy, index) = 0
        /\ \A index \in 1..22 : strategy_calculate_value(calculation_strategy, index) > 0
        /\ \A c \in Range(FinalForms) : c \notin DOMAIN create_hebrew_filled_letters_map
        /\ (last.op = "calculate_char_value" /\ last.text[1] \in Range(FinalForms)) =>
               last.value = 0
        /\ last.op = "calculate_value" =>
               last.value = calculate_value_no_cache(Ctx, StripFinals(last.text))

(* C20 witness: the phrase of test_phrase, which ends in final mem, was        *)
(* computed under OtiyotBeMilui and is the sum of its seven base letters.      *)
C20_Witness ==
    /\ last.op = "calculate_value"
    /\ last.method = "OtiyotBeMilui"
    /\ last.text = bh_phrase
    /\ last.value = 412 + 130 + 67 + 510 + 416 + 6 + 360

(* The number of empty tokens the maqafs of a text make: one for a maqaf that  *)
(* begins its chunk or follows a maqaf, and one for a maqaf that ends its      *)
(* chunk.                                                                      *)
EmptyTokens(text) ==
    LET IsMaqaf(i) == text[i] = 1470
        ChunkStart(i) == i = 1 \/ text[i - 1] \in WhiteSpace
        ChunkEnd(i) == i = Len(text) \/ text[i + 1] \in WhiteSpace
        before == {i \in DOMAIN text : IsMaqaf(i) /\ (ChunkStart(i) \/ IsMaqaf(i - 1))}
        after == {i \in DOMAIN text : IsMaqaf(i) /\ ChunkEnd(i)}
    IN  Cardinality(before) + Cardinality(after)

(* The tokens that are vowel marks only, which a context that removes vowels   *)
(* turns into empty words as well.                                             *)
MarkOnlyTokens(text) ==
    LET toks == TokensFrom(text, 1, << >>, FALSE)
    IN  Cardinality({i \in DOMAIN toks : toks[i] # << >> /\ StripMarks(toks[i]) = << >>})

EmptiesIn(seq) == Cardinality({i \in DOMAIN seq : seq[i] = << >>})

(* C21: the split on maqaf keeps empty tokens.  A chunk with a leading, a      *)
(* trailing or a doubled maqaf gives an empty word of value 0: a search for    *)
(* the value 0 returns one empty string for each of them (and a search for     *)
(* another value none), and the grouping has a group of value 0, with the      *)
(* empty string in it once, exactly when the text has another distinct         *)
(* processed word of value 0.                                                  *)
C21_MaqafKeepsEmptyTokens ==
    LET empties == EmptyTokens(last.text)
                   + (IF preserve_vowels THEN 0 ELSE MarkOnlyTokens(last.text))
        others == {w \in Range(ProcessedTokens(last.text)) :
                      w # << >> /\ UncachedSum(last.method, w) = 0}
        zero_groups == {i \in DOMAIN last.out : last.out[i][1] = 0}
    IN  /\ last.op \in {"search_matching_words", "search_matching_values"} =>
               /\ EmptiesIn(last.out) >= (IF last.value = 0 THEN EmptyTokens(last.text) ELSE 0)
               /\ EmptiesIn(last.out) = (IF last.value = 0 THEN empties ELSE 0)
        /\ (last.op = "group_words_by_gematria" /\ EmptyTokens(last.text) > 0) =>
               /\ (zero_groups # {}) <=> (others # {})
               /\ \A i \in zero_groups :
                      /\ EmptiesIn(last.out[i][2]) = 1
                      /\ Range(last.out[i][2]) = others \cup {<< >>}

(* C21 witness: the search for the value 0 in the text with a leading, a       *)
(* doubled and a trailing maqaf returned three empty strings and the Latin     *)
(* word.                                                                       *)
C21_Witness ==
    /\ last.op = "search_matching_values"
    /\ last.value = 0
    /\ last.text = <<maqaf, 97, space, alef, maqaf, maqaf, bet, space, gimel, maqaf>>
    /\ last.out = << << >>, <<97>>, << >>, << >> >>

(* C21 witness for the grouping: the same text gave the group of value 0 with  *)
(* the empty string and the Latin word, and no other group.                    *)
C21_GroupWitness ==
    /\ last.op = "group_words_by_gematria"
    /\ last.text = <<maqaf, 97, space, alef, maqaf, maqaf, bet, space, gimel, maqaf>>
    /\ last.out = << <<0, << << >>, <<97>> >> >> >>

====
